---- MODULE Spec2Model ----
(***************************************************************************)
(* Model of display_pgm() in BO_GAIN_EXP_TIMELAPSE_WIFI2/pgm_file_viewer.py *)
(*                                                                         *)
(* Python str and bytes values are sequences of code points / byte values, *)
(* so that lower(), endswith(), the ordering used by sorted(), int() and   *)
(* the two-byte magic test are computed and not assumed.                   *)
(***************************************************************************)
EXTENDS Integers, Sequences, FiniteSets, TLC

\* Largest number of entries the modelled directory holds.
MaxEntries == 3

----------------------------------------------------------------------------
\* Program constants (literals of the source)

RawSize == 76800
Rows == 240
Cols == 320

folder_name == <<112, 103, 109, 95, 102, 105, 108, 101, 115>>  \* 'pgm_files'
DotPgm == <<46, 112, 103, 109>>                                \* '.pgm'
MagicP5 == <<80, 53>>                                          \* b'P5'
MagicP2 == <<80, 50>>                                          \* b'P2'
QuitToken == <<113>>                                           \* 'q'
TitlePrefix == <<86, 105, 101, 119, 105, 110, 103, 58, 32>>    \* 'Viewing: '

----------------------------------------------------------------------------
\* Python built-ins used by the function

\* str.lower() on one ASCII character
Lower(c) == IF c >= 65 /\ c <= 90 THEN c + 32 ELSE c

StrLower(s) == [i \in 1..Len(s) |-> Lower(s[i])]

EndsWith(s, suf) ==
    /\ Len(s) >= Len(suf)
    /\ SubSeq(s, Len(s) - Len(suf) + 1, Len(s)) = suf

\* str.__lt__ : lexicographic order on code points
RECURSIVE StrLess(_, _)
StrLess(a, b) ==
    IF a = <<>> THEN b # <<>>
    ELSE IF b = <<>> THEN FALSE
    ELSE IF Head(a) # Head(b) THEN Head(a) < Head(b)
    ELSE StrLess(Tail(a), Tail(b))

\* whether s[j] comes before s[k] in a stable ascending sort
Before(s, j, k) ==
    \/ StrLess(s[j], s[k])
    \/ (~StrLess(s[k], s[j]) /\ j < k)

\* sorted(list): a stable ascending sort; position i receives the element
\* that has exactly i - 1 elements before it
sorted(s) ==
    [i \in 1..Len(s) |->
        s[CHOOSE k \in 1..Len(s) :
            Cardinality({j \in 1..Len(s) : Before(s, j, k)}) = i - 1]]

IsSpace(c) == c \in {9, 10, 11, 12, 13, 32}

IsDigit(c) == c >= 48 /\ c <= 57

RECURSIVE LStrip(_)
LStrip(s) == IF s # <<>> /\ IsSpace(Head(s)) THEN LStrip(Tail(s)) ELSE s

RECURSIVE RStrip(_)
RStrip(s) ==
    IF s # <<>> /\ IsSpace(s[Len(s)])
    THEN RStrip(SubSeq(s, 1, Len(s) - 1))
    ELSE s

\* the digit part of an int() literal: digits, single '_' between digits
ValidDigits(s) ==
    /\ s # <<>>
    /\ IsDigit(s[1])
    /\ IsDigit(s[Len(s)])
    /\ \A i \in 1..Len(s) :
          \/ IsDigit(s[i])
          \/ (s[i] = 95 /\ i < Len(s) /\ s[i + 1] # 95)

RECURSIVE DigitsValue(_, _)
DigitsValue(s, acc) ==
    IF s = <<>> THEN acc
    ELSE IF Head(s) = 95 THEN DigitsValue(Tail(s), acc)
    ELSE DigitsValue(Tail(s), acc * 10 + (Head(s) - 48))

\* int(str): ok = FALSE stands for ValueError
PyInt(text) ==
    LET t == RStrip(LStrip(text))
        signed == t # <<>> /\ Head(t) \in {43, 45}
        neg == t # <<>> /\ Head(t) = 45
        d == IF signed THEN Tail(t) ELSE t
    IN  IF ValidDigits(d)
        THEN [ok |-> TRUE,
              val |-> IF neg THEN 0 - DigitsValue(d, 0) ELSE DigitsValue(d, 0)]
        ELSE [ok |-> FALSE, val |-> 0]

\* list.__getitem__(i): a negative index counts from the end of the list
ListIndexOK(s, i) == (0 - Len(s)) <= i /\ i < Len(s)

ListGet(s, i) == IF i >= 0 THEN s[i + 1] ELSE s[Len(s) + i + 1]

\* os.path.join(folder, name) for a relative name
PathJoin(dir, name) == dir \o <<47>> \o name

\* list(enumerate(files, start=1))
Enumerate(s) == [i \in 1..Len(s) |-> [num |-> i, name |-> s[i]]]

----------------------------------------------------------------------------
\* The file system the program runs against

a_pgm == <<97, 46, 112, 103, 109>>     \* 'a.pgm'  headerless raw dump
b_pgm == <<98, 46, 112, 103, 109>>     \* 'b.pgm'  P5 header, 76800 bytes long
B_PGM == <<66, 46, 80, 71, 77>>        \* 'B.PGM'  500 bytes starting 'XY'
c_txt == <<99, 46, 116, 120, 116>>     \* 'c.txt'  not a candidate
d_pgm == <<100, 46, 112, 103, 109>>    \* 'd.pgm'  the single byte 'P'
e_PgM == <<101, 46, 80, 103, 77>>      \* 'e.PgM'  small P2 text file
f_pgm == <<102, 46, 112, 103, 109>>    \* 'f.pgm'  a directory

Names == {a_pgm, b_pgm, B_PGM, c_txt, d_pgm, e_PgM, f_pgm}

\* (SubSeq makes the content an explicit sequence)
RawBytes == SubSeq([i \in 1..RawSize |-> (i * 7) % 256], 1, RawSize)

P5Bytes ==
    SubSeq([i \in 1..RawSize |-> IF i = 1 THEN 80 ELSE IF i = 2 THEN 53 ELSE 128],
           1, RawSize)

XYBytes == [i \in 1..500 |-> IF i = 1 THEN 88 ELSE IF i = 2 THEN 89 ELSE 0]

P2Bytes == <<80, 50, 10, 49, 32, 49, 10, 50, 53, 53, 10, 48, 10>>

RegularFile(b) == [kind |-> "file", bytes |-> b]

Disk ==
    (a_pgm :> RegularFile(RawBytes)) @@
    (b_pgm :> RegularFile(P5Bytes)) @@
    (B_PGM :> RegularFile(XYBytes)) @@
    (c_txt :> RegularFile(<<104, 105>>)) @@
    (d_pgm :> RegularFile(<<80>>)) @@
    (e_PgM :> RegularFile(P2Bytes)) @@
    (f_pgm :> [kind |-> "dir", bytes |-> <<>>])

\* the entry a path of the form folder_name/name denotes
Lookup(p) == Disk[SubSeq(p, Len(folder_name) + 2, Len(p))]

\* os.path.getsize(path): st_size of the entry
getsize(p) == IF Lookup(p).kind = "dir" THEN 4096 ELSE Len(Lookup(p).bytes)

\* orders in which os.listdir may yield the entries of a directory
Listings ==
    {s \in UNION {[1..n -> Names] : n \in 0..MaxEntries} :
        \A i, j \in 1..Len(s) : i # j => s[i] # s[j]}

\* what the operator types at the prompt
Selections ==
    { <<113>>, <<81>>,
      <<49>>, <<50>>, <<51>>, <<52>>,
      <<48>>, <<45, 49>>, <<45, 50>>,
      <<57>>, <<45, 57>>,
      <<32, 50>>, <<43, 49>>,
      <<120>>, <<>>, <<32, 113>>,
      <<49, 46, 53>> }

\* eof: the input stream is closed and input() raises EOFError
Inputs ==
    {[eof |-> TRUE, text |-> <<>>]} \cup
    {[eof |-> FALSE, text |-> s] : s \in Selections}

----------------------------------------------------------------------------
\* Decisions of display_pgm

\* a filter that forgets lower(): only names ending in lower-case '.pgm'
IsPgmCaseSensitive(f) == EndsWith(f, DotPgm)

\* line 13: the filter of the list comprehension
IsPgm(f) == EndsWith(StrLower(f), DotPgm)

RECURSIVE PgmFilter(_)
PgmFilter(s) ==
    IF s = <<>> THEN <<>>
    ELSE (IF IsPgm(Head(s)) THEN <<Head(s)>> ELSE <<>>) \o PgmFilter(Tail(s))

\* line 13
discover(l) == sorted(PgmFilter(l))

\* an empty-list test that never fires
NoCandidatesNever(fs) == FALSE

\* line 15: "if not files"
NoCandidates(fs) == fs = <<>>

\* a quit test that forgets lower()
IsQuitExact(text) == text = QuitToken

\* line 24
IsQuit(text) == StrLower(text) = QuitToken

\* an index that forgets the "- 1"
SelectionIndexZeroBased(n) == n

\* line 26: the list index computed from the parsed number
SelectionIndex(n) == n - 1

\* f.read(2) at position pos
ReadMagic(bytes, pos) ==
    SubSeq(bytes, pos + 1, IF pos + 2 <= Len(bytes) THEN pos + 2 ELSE Len(bytes))

\* a peek that is not followed by seek(0)
SeekNone(pos) == pos

\* line 33: f.seek(0)
SeekReset(pos) == 0

\* f.read(): everything from the read position to the end of the file
ReadAll(bytes, pos) == IF pos = 0 THEN bytes ELSE SubSeq(bytes, pos + 1, Len(bytes))

\* the size test placed before the magic test
classifySizeFirst(magic, size) ==
    IF size = RawSize THEN "raw"
    ELSE IF magic \in {MagicP5, MagicP2} THEN "standard"
    ELSE "unknown"

\* the size test written "<=" instead of "=="
classifyRawAtMost(magic, size) ==
    IF magic \in {MagicP5, MagicP2} THEN "standard"
    ELSE IF size <= RawSize THEN "raw"
    ELSE "unknown"

\* lines 36, 42, 47: the branch taken
classify(magic, size) ==
    IF magic \in {MagicP5, MagicP2} THEN "standard"
    ELSE IF size = RawSize THEN "raw"
    ELSE "unknown"

\* An ndarray is a view: a shape over a flat buffer, in C (row-major) order.
\* np.frombuffer(raw, dtype=np.uint8): a one-dimensional view of the bytes
FromBuffer(raw) == [shape |-> <<Len(raw)>>, buf |-> raw]

\* number of elements of an array
Size(a) == IF Len(a.shape) = 1 THEN a.shape[1] ELSE a.shape[1] * a.shape[2]

\* ndarray.reshape((rows, cols)) raises ValueError unless the sizes agree
CanReshape(a, rows, cols) == Size(a) = rows * cols

\* ndarray.reshape((rows, cols)): the same buffer under a new shape
Reshape(a, rows, cols) == [shape |-> <<rows, cols>>, buf |-> a.buf]

\* a[r]: row r (from 1) of a two-dimensional array
Row(a, r) == SubSeq(a.buf, (r - 1) * a.shape[2] + 1, r * a.shape[2])

\* a[r][c]
At(a, r, c) == Row(a, r)[c]

NoArray == [shape |-> <<>>, buf |-> <<>>]

\* open() without a with block: nothing closes the handle
WithExitLeak(h) == h

\* leaving the with block (normally, by return, or by an exception)
WithExit(h) == [h EXCEPT !.open = FALSE]

NoPixels == [kind |-> "none", data |-> NoArray, src |-> <<>>]

NoHandle == [open |-> FALSE, opened |-> FALSE, path |-> <<>>, pos |-> 0]

Message(k, e, n) == [kind |-> k, e |-> e, size |-> n]

ScriptError(e) == Message("ScriptError", e, 0)

----------------------------------------------------------------------------
VARIABLES
    pc,             \* position of the invocation
    fsKind,         \* what 'pgm_files' is: "missing", "notdir" or "dir"
    listing,        \* os.listdir(folder_name), in the order it is yielded
    files,
    printed,        \* the numbered list written to stdout
    selection,      \* the line read at the prompt
    selected_file,
    path,
    file_size,
    handle,         \* f
    branch,         \* the case taken by lines 36-49
    pixels,
    out,            \* status and error messages written to stdout
    shown,          \* calls made to the display collaborator
    visited         \* history: the positions the invocation has been at

vars == <<pc, fsKind, listing, files, printed, selection, selected_file,
          path, file_size, handle, branch, pixels, out, shown, visited>>

Init ==
    /\ pc = "Start"
    /\ \/ fsKind = "dir" /\ listing \in Listings
       \/ fsKind \in {"missing", "notdir"} /\ listing = <<>>
    /\ files = <<>>
    /\ printed = <<>>
    /\ selection = [eof |-> FALSE, text |-> <<>>]
    /\ selected_file = <<>>
    /\ path = <<>>
    /\ file_size = 0
    /\ handle = NoHandle
    /\ branch = "none"
    /\ pixels = NoPixels
    /\ out = <<>>
    /\ shown = <<>>
    /\ visited = <<"Start">>

\* lines 5-6
Begin ==
    /\ pc = "Start"
    /\ pc' = "Discovering"
    /\ UNCHANGED <<fsKind, listing, files, printed, selection, selected_file,
                   path, file_size, handle, branch, pixels, out, shown>>

\* lines 8-17; os.listdir of something that is not a directory raises
\* outside the try block
Discover ==
    /\ pc = "Discovering"
    /\ IF fsKind = "missing"
       THEN /\ out' = Append(out, Message("FolderNotFound", "", 0))
            /\ pc' = "Reported"
            /\ files' = files
       ELSE IF fsKind = "notdir"
       THEN /\ out' = out
            /\ pc' = "Escaped"
            /\ files' = files
       ELSE /\ files' = discover(listing)
            /\ IF NoCandidates(files')
               THEN out' = Append(out, Message("NoFiles", "", 0)) /\ pc' = "Reported"
               ELSE out' = out /\ pc' = "Listed"
    /\ UNCHANGED <<fsKind, listing, printed, selection, selected_file,
                   path, file_size, handle, branch, pixels, shown>>

\* lines 19-20
PrintList ==
    /\ pc = "Listed"
    /\ printed' = Enumerate(files)
    /\ pc' = "Prompting"
    /\ UNCHANGED <<fsKind, listing, files, selection, selected_file,
                   path, file_size, handle, branch, pixels, out, shown>>

\* lines 23-26 (and 60-61 when input(), int() or the indexing raises)
Prompt ==
    /\ pc = "Prompting"
    /\ \E inp \in Inputs :
        /\ selection' = inp
        /\ IF inp.eof
           THEN /\ out' = Append(out, ScriptError("EOFError"))
                /\ pc' = "Reported"
                /\ selected_file' = selected_file
           ELSE IF IsQuit(inp.text)
           THEN /\ out' = out
                /\ pc' = "Exit"
                /\ selected_file' = selected_file
           ELSE IF ~PyInt(inp.text).ok
           THEN /\ out' = Append(out, ScriptError("ValueError"))
                /\ pc' = "Reported"
                /\ selected_file' = selected_file
           ELSE IF ~ListIndexOK(files, SelectionIndex(PyInt(inp.text).val))
           THEN /\ out' = Append(out, ScriptError("IndexError"))
                /\ pc' = "Reported"
                /\ selected_file' = selected_file
           ELSE /\ out' = out
                /\ pc' = "Selected"
                /\ selected_file' = ListGet(files, SelectionIndex(PyInt(inp.text).val))
    /\ UNCHANGED <<fsKind, listing, files, printed,
                   path, file_size, handle, branch, pixels, shown>>

\* lines 27-30 (and 60-61 when open() raises)
OpenFile ==
    /\ pc = "Selected"
    /\ path' = PathJoin(folder_name, selected_file)
    /\ file_size' = getsize(path')
    /\ IF Lookup(path').kind = "dir"
       THEN /\ out' = Append(out, ScriptError("IsADirectoryError"))
            /\ pc' = "Reported"
            /\ handle' = handle
       ELSE /\ out' = out
            /\ pc' = "Classifying"
            /\ handle' = [open |-> TRUE, opened |-> TRUE, path |-> path', pos |-> 0]
    /\ UNCHANGED <<fsKind, listing, files, printed, selection, selected_file,
                   branch, pixels, shown>>

\* lines 32-37, 42-43, 47-49
Classify ==
    /\ pc = "Classifying"
    /\ LET bytes == Lookup(handle.path).bytes
           magic == ReadMagic(bytes, handle.pos)
           h == [handle EXCEPT !.pos = SeekReset(handle.pos + Len(magic))]
       IN  /\ branch' = classify(magic, file_size)
           /\ IF branch' = "standard"
              THEN /\ out' = Append(out, Message("StandardHeader",
                                       IF magic = MagicP5 THEN "P5" ELSE "P2", 0))
                   /\ handle' = h
                   /\ pc' = "Decoding"
              ELSE IF branch' = "raw"
              THEN /\ out' = Append(out, Message("NoHeader", "", 0))
                   /\ handle' = h
                   /\ pc' = "Decoding"
              ELSE /\ out' = Append(out, Message("UnknownFormat", "", file_size))
                   /\ handle' = WithExit(h)
                   /\ pc' = "Reported"
    /\ UNCHANGED <<fsKind, listing, files, printed, selection, selected_file,
                   path, file_size, pixels, shown>>

\* line 39, or lines 44-45; then the end of the with block
\* (and 60-61 when the decoder or the reshape raises)
Decode ==
    /\ pc = "Decoding"
    /\ handle' = WithExit(handle)
    /\ IF branch = "standard"
       THEN \E ok \in BOOLEAN :
               IF ok
               THEN /\ pixels' = [kind |-> "imread", data |-> NoArray, src |-> path]
                    /\ out' = out
                    /\ pc' = "Displaying"
               ELSE /\ pixels' = pixels
                    /\ out' = Append(out, ScriptError("DecodeError"))
                    /\ pc' = "Reported"
       ELSE LET raw_data == ReadAll(Lookup(handle.path).bytes, handle.pos)
            IN  IF CanReshape(FromBuffer(raw_data), Rows, Cols)
                THEN /\ pixels' = [kind |-> "raw",
                                   data |-> Reshape(FromBuffer(raw_data), Rows, Cols),
                                   src |-> <<>>]
                     /\ out' = out
                     /\ pc' = "Displaying"
                ELSE /\ pixels' = pixels
                     /\ out' = Append(out, ScriptError("ValueError"))
                     /\ pc' = "Reported"
    /\ UNCHANGED <<fsKind, listing, files, printed, selection, selected_file,
                   path, file_size, branch, shown>>

\* lines 52-58 (and 60-61 when the plotting library raises)
Display ==
    /\ pc = "Displaying"
    /\ shown' = Append(shown, [image |-> pixels.kind,
                               cmap |-> "gray", vmin |-> 0, vmax |-> 255,
                               title |-> TitlePrefix \o selected_file,
                               handleOpen |-> handle.open])
    /\ \E ok \in BOOLEAN :
          IF ok
          THEN out' = out /\ pc' = "End"
          ELSE out' = Append(out, ScriptError("DisplayError")) /\ pc' = "Reported"
    /\ UNCHANGED <<fsKind, listing, files, printed, selection, selected_file,
                   path, file_size, handle, branch, pixels>>

\* one step of display_pgm
Step ==
    \/ Begin
    \/ Discover
    \/ PrintList
    \/ Prompt
    \/ OpenFile
    \/ Classify
    \/ Decode
    \/ Display

Next == Step /\ visited' = Append(visited, pc')

Spec == Init /\ [][Next]_vars

----------------------------------------------------------------------------
\* Vocabulary of the properties

Terminal == {"End", "Exit", "Reported", "Escaped"}

\* the prompt has been answered (or has failed)
Prompted == printed # <<>> /\ pc # "Prompting"

LastOut == out[Len(out)]

\* nothing was sized, opened, classified, decoded or displayed
NoFileTouched ==
    /\ path = <<>>
    /\ ~handle.opened
    /\ branch = "none"
    /\ pixels.kind = "none"
    /\ shown = <<>>

\* the content of a regular file starts with 'P5' or 'P2'
HasMagic(name) ==
    LET b == Disk[name].bytes
    IN  Len(b) >= 2 /\ b[1] = 80 /\ b[2] \in {53, 50}

\* a name ends in '.pgm' in any letter case
PgmSuffix(n) ==
    /\ Len(n) >= 4
    /\ n[Len(n) - 3] = 46
    /\ n[Len(n) - 2] \in {112, 80}
    /\ n[Len(n) - 1] \in {103, 71}
    /\ n[Len(n)] \in {109, 77}

Candidates == {listing[i] : i \in {j \in DOMAIN listing : PgmSuffix(listing[j])}}

IsRegular(name) == name # <<>> /\ Disk[name].kind = "file"

----------------------------------------------------------------------------
\* C1: with N >= 1 files listed, a selection that is not the quit token and is
\* non-numeric or an integer outside 1..N (0 and the negatives included) ends
\* the invocation with a reported ValueError/IndexError and no file is sized,
\* opened, classified or displayed.
C1_InvalidSelectionRejected ==
    ( /\ Prompted
      /\ ~selection.eof
      /\ selection.text \notin {<<113>>, <<81>>}
      /\ \/ ~PyInt(selection.text).ok
         \/ PyInt(selection.text).val \notin 1..Len(files) )
    => /\ pc = "Reported"
       /\ LastOut.kind = "ScriptError"
       /\ LastOut.e \in {"ValueError", "IndexError"}
       /\ NoFileTouched

\* C2: no error escapes display_pgm; an invocation that fails ends with a
\* message on stdout.
C2_NoErrorEscapes ==
    /\ pc # "Escaped"
    /\ pc = "Reported" => out # <<>>

\* C3: a regular file of exactly 76800 bytes not starting with P5/P2 is
\* classified Headerless Raw, is read from position 0, and decodes to 240 rows
\* of 320 pixels whose row-major content is the whole file, byte for byte.
C3_RawRoundTrip ==
    ( /\ IsRegular(selected_file)
      /\ ~HasMagic(selected_file)
      /\ Len(Disk[selected_file].bytes) = 76800
      /\ branch # "none" )
    => /\ branch = "raw"
       /\ pc = "Decoding" => handle.pos = 0
       /\ pc # "Decoding" =>
            /\ pixels.kind = "raw"
            /\ pixels.data.shape = <<240, 320>>
            /\ \A r \in 1..240 :
                  Row(pixels.data, r) =
                      SubSeq(Disk[selected_file].bytes, (r - 1) * 320 + 1, r * 320)

C3_Witness ==
    /\ pc = "Displaying"
    /\ selected_file = a_pgm
    /\ branch = "raw"
    /\ At(pixels.data, 1, 1) = 7
    /\ At(pixels.data, 2, 1) = (321 * 7) % 256
    /\ At(pixels.data, 240, 320) = (76800 * 7) % 256

\* C4: a regular file starting with P5 or P2 always takes the Standard Header
\* path, whatever its size (76800 included); the raw and unknown branches are
\* never taken for it.
C4_MagicAlwaysStandard ==
    ( /\ IsRegular(selected_file)
      /\ HasMagic(selected_file)
      /\ branch # "none" )
    => /\ branch = "standard"
       /\ pixels.kind # "raw"
       /\ \A i \in 1..Len(out) : out[i].kind \notin {"NoHeader", "UnknownFormat"}
       /\ \E i \in 1..Len(out) : out[i].kind = "StandardHeader"

C4_Witness ==
    /\ pc = "Displaying"
    /\ selected_file = b_pgm
    /\ file_size = 76800
    /\ branch = "standard"
    /\ pixels.kind = "imread"

\* C5: a regular file not starting with P5/P2 (files shorter than two bytes
\* included) whose size is not 76800 ends the invocation with the Unknown
\* format message carrying the file's true size, and nothing is displayed.
C5_UnknownFormat ==
    ( /\ IsRegular(selected_file)
      /\ ~HasMagic(selected_file)
      /\ Len(Disk[selected_file].bytes) # 76800
      /\ branch # "none" )
    => /\ branch = "unknown"
       /\ pc = "Reported"
       /\ LastOut = Message("UnknownFormat", "", Len(Disk[selected_file].bytes))
       /\ pixels.kind = "none"
       /\ shown = <<>>

C5_Witness ==
    /\ pc = "Reported"
    /\ branch = "unknown"
    /\ selected_file = d_pgm
    /\ LastOut.kind = "UnknownFormat"
    /\ LastOut.size = 1

\* C6: the quit token 'q' or 'Q' ends the invocation at once: no file is
\* selected, sized, opened, classified, decoded or displayed and nothing is
\* reported.
C6_QuitTerminates ==
    ( /\ Prompted
      /\ ~selection.eof
      /\ selection.text \in {<<113>>, <<81>>} )
    => /\ pc = "Exit"
       /\ out = <<>>
       /\ selected_file = <<>>
       /\ NoFileTouched

C6_Witness ==
    /\ pc = "Exit"
    /\ selection.text = <<81>>
    /\ Len(files) >= 1

\* C7: discovery returns exactly the directory entries whose name ends in
\* '.pgm' in any letter case, each once, in strictly ascending order; being
\* the one ascending arrangement of that set, the result does not depend on
\* the order in which the directory yields its entries.
C7_Discovery ==
    (fsKind = "dir" /\ pc \notin {"Start", "Discovering"})
    => /\ {files[i] : i \in DOMAIN files} = Candidates
       /\ Len(files) = Cardinality(Candidates)
       /\ \A i \in 1..(Len(files) - 1) : StrLess(files[i], files[i + 1])

C7_Witness ==
    /\ pc = "Listed"
    /\ listing = <<b_pgm, c_txt, B_PGM>>
    /\ files = <<B_PGM, b_pgm>>

\* C8: an integer selection k with 1 <= k <= N selects the k-th name of the
\* sorted list, the one printed with number k; that file is the one sized,
\* opened and decoded, and the display title names it.
C8_SelectionIsKth ==
    ( /\ Prompted
      /\ ~selection.eof
      /\ PyInt(selection.text).ok
      /\ PyInt(selection.text).val \in 1..Len(files) )
    => LET k == PyInt(selection.text).val
       IN  /\ pc # "Exit"
           /\ selected_file = files[k]
           /\ printed[k] = [num |-> k, name |-> selected_file]
           /\ pc # "Selected" => path = folder_name \o <<47>> \o files[k]
           /\ handle.opened => handle.path = path
           /\ pixels.kind = "imread" => pixels.src = path
           /\ \A i \in 1..Len(shown) : shown[i].title = TitlePrefix \o files[k]

C8_Witness ==
    /\ pc = "End"
    /\ listing = <<b_pgm, a_pgm>>
    /\ printed = <<[num |-> 1, name |-> a_pgm], [num |-> 2, name |-> b_pgm]>>
    /\ selection.text = <<50>>
    /\ selected_file = b_pgm
    /\ Len(shown) = 1

\* Position of a state of the invocation in the linear flow
Rank(p) ==
    CASE p = "Start" -> 0
      [] p = "Discovering" -> 1
      [] p = "Listed" -> 2
      [] p = "Prompting" -> 3
      [] p = "Selected" -> 4
      [] p = "Classifying" -> 5
      [] p = "Decoding" -> 6
      [] p = "Displaying" -> 7
      [] OTHER -> 8

ClaimedTransitions ==
    { <<"Start", "Discovering">>,
      <<"Discovering", "Reported">>, <<"Discovering", "Listed">>,
      <<"Listed", "Prompting">>,
      <<"Prompting", "Exit">>, <<"Prompting", "Selected">>,
      <<"Selected", "Classifying">>,
      <<"Classifying", "Reported">>, <<"Classifying", "Decoding">>,
      <<"Decoding", "Reported">>, <<"Decoding", "Displaying">>,
      <<"Displaying", "End">> }

\* the failure exits the code has besides the claimed ones
FailureExits ==
    { <<"Discovering", "Escaped">>,
      <<"Prompting", "Reported">>,
      <<"Selected", "Reported">>,
      <<"Displaying", "Reported">> }

\* the prompt follows a non-empty printed list; a missing directory or an
\* empty candidate list ends with no list and no prompt; the display
\* collaborator is called at most once and only with a decoded image
FlowInvariant ==
    /\ pc = "Prompting" => (files # <<>> /\ Len(printed) = Len(files))
    /\ Prompted => files # <<>>
    /\ (pc = "Reported" /\ LastOut.kind \in {"FolderNotFound", "NoFiles"})
          => (printed = <<>> /\ selection = [eof |-> FALSE, text |-> <<>>])
    /\ Len(shown) <= 1
    /\ shown # <<>> => (pixels.kind # "none" /\ branch \in {"standard", "raw"})

\* the steps taken so far
Steps == {<<visited[i], visited[i + 1]>> : i \in 1..(Len(visited) - 1)}

\* C9 as stated, on the invocations whose folder is a listable directory:
\* only the claimed transitions are taken.
C9_ClaimedStateMachine ==
    fsKind = "dir" =>
        /\ Steps \subseteq ClaimedTransitions
        /\ FlowInvariant

\* C9, amended: every step is a claimed transition or one of the failure
\* exits (Discovering to an uncaught listing error; Prompting, Selected or
\* Displaying to Reported); every step moves strictly forward in the linear
\* flow, so no state is entered twice; the prompt comes only after a non-empty
\* list; the display collaborator runs at most once, after a successful
\* decode; and a state that is not terminal always has a next step, so that an
\* invocation whose prompt and viewer return ends after at most eight steps.
C9_StateMachine ==
    /\ visited[Len(visited)] = pc
    /\ Steps \subseteq ClaimedTransitions \cup FailureExits
    /\ \A i, j \in 1..Len(visited) : i < j => Rank(visited[i]) < Rank(visited[j])
    /\ FlowInvariant
    /\ pc \in Terminal \/ ENABLED Next

C9_Witness ==
    /\ pc = "Reported"
    /\ LastOut = ScriptError("DisplayError")
    /\ selected_file = b_pgm
    /\ Len(shown) = 1
    /\ printed # <<>>
    /\ visited = <<"Start", "Discovering", "Listed", "Prompting", "Selected",
                   "Classifying", "Decoding", "Displaying", "Reported">>

\* C10: the handle opened for classification is closed on every way out of
\* the with block: it is open only while classifying and decoding, never
\* while the display collaborator runs and never when the invocation has ended.
C10_HandleReleased ==
    /\ handle.open => pc \in {"Classifying", "Decoding"}
    /\ pc \in Terminal \cup {"Displaying"} => ~handle.open
    /\ \A i \in 1..Len(shown) : ~shown[i].handleOpen

C10_Witness ==
    /\ pc = "Reported"
    /\ handle.opened
    /\ ~handle.open
    /\ LastOut = ScriptError("DecodeError")

====
